---- MODULE Spec2Model ----
(***************************************************************************)
(* URL shortener with API keys (Express handlers over two JSON documents). *)
(*                                                                         *)
(* The state is the two documents on disk (data/api-keys.json and          *)
(* data/urls.json), the wall clock, and the requests in flight.  Every     *)
(* handler is an async function: it runs without interruption up to its    *)
(* next `await`, so each action below is one such run.  A document read    *)
(* yields a private copy of the whole document; a write replaces the whole *)
(* document by the copy the handler modified (writeJSON serialises the     *)
(* copy when it is called).  The write and the response that follows it    *)
(* are one step.                                                           *)
(*                                                                         *)
(* Times are in days.  Strings that are only compared are numbers or       *)
(* TLA+ strings; URLs are sequences of characters because they are parsed  *)
(* and encoded.  A nullable value is <<>> (null/undefined) or <<v>>.       *)
(***************************************************************************)
EXTENDS Integers, Sequences, FiniteSets, TLC

\* ------------------------------------------------------------- constants
API_KEY_EXPIRATION_DAYS == 30
MAX_KEYS_PER_USER == 5

\* ---------------------------------------------------------------- bounds
NumSlots == 2          \* requests that can be in flight together
MaxRequests == 3       \* requests started in one behaviour
MaxTicks == 2          \* clock advances in one behaviour
NumKeys == 6           \* keys generateApiKey returns in one behaviour
NumShortIds == 2       \* values generateShortUrl can return
MaxFaults == 1         \* times a document becomes unreadable in one behaviour

Slots == 1..NumSlots
Keys == 1..NumKeys
ShortIds == 1..NumShortIds
Users == {"u1", "u2"}
TickSteps == {1, API_KEY_EXPIRATION_DAYS}

\* A property name every object inherits ("constructor"): it is no key of
\* a parsed document, yet doc[name] yields an object.
Constructor == 0

Null == <<>>
Some(v) == <<v>>
Val(n) == n[1]

\* The url values requests carry: missing (or ""), "a", "a:", " a:".
NoUrl == <<>>
BadUrl == <<"a">>
GoodUrl == <<"a", ":">>
PaddedUrl == <<" ", "a", ":">>

EmptyDoc == <<>>

\* The two documents: data/api-keys.json and data/urls.json.
Files == {"keys", "urls"}

\* The requests the clients send are drawn from one of three workloads:
\*   counts    the keys of user u1 the key document holds at start-up (0: no
\*             file yet; one below the quota; the quota);
\*   names     the values of X-API-Key and of /api/keys/:apiKey (a name is
\*             unknown to the store until generateApiKey has returned it);
\*   urls, paths   the url of a Shorten and the identifier of a Resolve;
\*   ids       what generateShortUrl can return;
\*   requests, ticks, faults   how many requests start, how often the clock
\*             advances and how often a document becomes unreadable in one
\*             behaviour.
Workload ==
  [keys |->
     [counts |-> {0, MAX_KEYS_PER_USER - 1, MAX_KEYS_PER_USER},
      users |-> Users,
      descriptions |-> {Null, Some("d1")},
      names |-> {1, MAX_KEYS_PER_USER, MAX_KEYS_PER_USER + 1},
      headers |-> {Some(1), Some(MAX_KEYS_PER_USER)},
      urls |-> {GoodUrl},
      ids |-> ShortIds,
      paths |-> {1},
      requests |-> MaxRequests,
      ticks |-> 0,
      faults |-> 0],
   expiry |->
     [counts |-> {1},
      users |-> {"u1"},
      descriptions |-> {Null},
      names |-> {1, 2, Constructor},
      headers |-> {Null, Some(1), Some(2), Some(Constructor)},
      urls |-> {NoUrl, BadUrl, GoodUrl},
      ids |-> ShortIds,
      paths |-> {1},
      requests |-> MaxRequests - 1,
      ticks |-> MaxTicks,
      faults |-> 0],
   urls |->
     [counts |-> {1},
      users |-> {"u1"},
      descriptions |-> {Null},
      names |-> {1},
      headers |-> {Some(1)},
      urls |-> {NoUrl, BadUrl, GoodUrl, PaddedUrl},
      ids |-> ShortIds,
      paths |-> ShortIds \cup {Constructor},
      requests |-> MaxRequests,
      ticks |-> 0,
      faults |-> 0],
   faults |->
     [counts |-> {0, 1},
      users |-> {"u1"},
      descriptions |-> {Null},
      names |-> {1},
      headers |-> {Some(1)},
      urls |-> {NoUrl, GoodUrl},
      ids |-> ShortIds,
      paths |-> {1},
      requests |-> MaxRequests - 1,
      ticks |-> 0,
      faults |-> MaxFaults]]

\* hist records what the clients were told: the keys POST /api/keys returned
\* with status 200 (issued), the names DELETE requests were sent for
\* (revoking), the keys of the store whose DELETE was answered 200
\* (revoked), and the identifiers POST /api/shorten returned with status
\* 200, each with its url (shortened).  No handler reads it.
\* helpers tells whether isValidUrl and generateShortUrl are in scope of the
\* shorten route.  The file with the key routes calls them without defining
\* them; server.js defines them.  Both builds are modelled.
\* broken holds the documents readJSON cannot currently read (the file is
\* there but is not valid JSON); faults counts how often that happened.
VARIABLES keyStore, urlStore, now, ticks, inherited, req, started, generated,
          load, hist, helpers, broken, faults

vars ==
  <<keyStore, urlStore, now, ticks, inherited, req, started, generated, load,
    hist, helpers, broken, faults>>

\* The workload of this behaviour.
W == Workload[load]

\* ------------------------------------------------------- pure functions

\* apiKeyManager.countUserKeys, on the document it has read.
countUserKeys(doc, userId) ==
  Cardinality({k \in DOMAIN doc : doc[k].userId = userId})

\* doc[name] as JavaScript evaluates it: an own property of the parsed
\* document, else a property inherited from Object.prototype, else
\* undefined.  The inherited object has no userId and no expiresAt.
Lookup(doc, name, inh) ==
  IF name \in DOMAIN doc
    THEN Some([revoked |-> doc[name].revoked,
               expiresAt |-> Some(doc[name].expiresAt),
               userId |-> Some(doc[name].userId)])
    ELSE IF name = Constructor
      THEN Some([revoked |-> inh.revoked, expiresAt |-> Null, userId |-> Null])
      ELSE Null

\* isKeyExpired with the comparison <= in place of <.
isKeyExpiredAtExpiry(keyData, t) ==
  keyData.expiresAt # Null /\ Val(keyData.expiresAt) <= t

\* apiKeyManager.isKeyExpired: new Date(expiresAt) < new Date().  A missing
\* expiresAt gives an invalid date, and every comparison with it is false.
isKeyExpired(keyData, t) ==
  keyData.expiresAt # Null /\ Val(keyData.expiresAt) < t

\* getExpirationDate one day short.
getExpirationDateShort(t) == t + API_KEY_EXPIRATION_DAYS - 1

\* apiKeyManager.getExpirationDate, with t the clock it reads.
getExpirationDate(t) == t + API_KEY_EXPIRATION_DAYS

\* The URL parser strips leading and trailing spaces.
RECURSIVE TrimLeft(_)
TrimLeft(s) ==
  IF s # <<>> /\ Head(s) = " " THEN TrimLeft(Tail(s)) ELSE s

RECURSIVE TrimRight(_)
TrimRight(s) ==
  IF s # <<>> /\ s[Len(s)] = " "
    THEN TrimRight(SubSeq(s, 1, Len(s) - 1)) ELSE s

\* isValidUrl: new URL(string) succeeds.  Without a base the string must
\* start, after trimming, with a scheme: letters up to a ":".
isValidUrl(s) ==
  LET t == TrimRight(TrimLeft(s))
  IN \E i \in 2..Len(t) : t[i] = ":" /\ \A j \in 1..(i - 1) : t[j] = "a"

\* res.redirect sets Location to encodeUrl(url): a space becomes %20.
encodeUrl(s) == [i \in 1..Len(s) |-> IF s[i] = " " THEN "%20" ELSE s[i]]

\* The record POST /api/keys stores.
NewKeyRecord(userId, createdAt, expiresAt, description) ==
  [userId |-> userId, createdAt |-> createdAt, expiresAt |-> expiresAt,
   lastUsed |-> Null, revoked |-> FALSE, description |-> description,
   revokedAt |-> Null, updatedAt |-> Null]

\* apiKeys[apiKey].lastUsed = new Date() on validateApiKey's copy of the
\* document; for an inherited name the assignment does not reach the copy.
\* (The variant also stamps updatedAt.)
setLastUsedAndUpdatedAt(doc, apiKey, t) ==
  IF apiKey \in DOMAIN doc
    THEN [doc EXCEPT ![apiKey].lastUsed = Some(t), ![apiKey].updatedAt = Some(t)]
    ELSE doc

setLastUsed(doc, apiKey, t) ==
  IF apiKey \in DOMAIN doc
    THEN [doc EXCEPT ![apiKey].lastUsed = Some(t)]
    ELSE doc

\* doc[name] = rec on a copy of the document.
Put(doc, name, rec) ==
  [k \in DOMAIN doc \cup {name} |-> IF k = name THEN rec ELSE doc[k]]

\* ------------------------------------------------------------ responses
NoResponse ==
  [status |-> 0, error |-> "", name |-> Null, userId |-> Null,
   expiresAt |-> Null, url |-> <<>>]

Error(status, message) ==
  [NoResponse EXCEPT !.status = status, !.error = message]

\* ------------------------------------------------------------- requests
\* The locals of one handler.  seen is what the Validate step found in the
\* document it read; count is what countUserKeys returned; after is what
\* the clients had been told about the key when the request was sent.
IdleRequest ==
  [pc |-> "idle", kind |-> "none", name |-> Null, userId |-> Null,
   desc |-> Null, url |-> <<>>, sid |-> Null, keysDoc |-> EmptyDoc, urlsDoc |-> EmptyDoc,
   seen |-> Null, count |-> Null, after |-> Null, resp |-> NoResponse]

\* A request is served in the first slot that is not in flight.
\* pc = "hung": the handler threw and nothing answers the request.
InFlight(r) == req[r].pc \notin {"idle", "done", "hung"}
Free(r) ==
  /\ ~InFlight(r)
  /\ \A q \in Slots : q < r => InFlight(q)
  /\ started < W.requests

Begin(r, kind, pc) ==
  [IdleRequest EXCEPT !.kind = kind, !.pc = pc]

\* The handler returns: its copies of the documents are dropped.
Respond(r, response) ==
  req' = [req EXCEPT ![r].pc = "done", ![r].resp = response,
                     ![r].keysDoc = EmptyDoc, ![r].urlsDoc = EmptyDoc]

\* apiKeyManager.generateApiKey: 16 random bytes.  A value of 128 random
\* bits is taken to be one no earlier call returned: the keys are numbered
\* in the order they are generated.
generateApiKey == generated + 1

\* A document the server can find at start-up: n keys of user u1, as
\* POST /api/keys stored them at time 0.
InitialKeys(n) ==
  [k \in 1..n |->
     NewKeyRecord("u1", 0, getExpirationDate(0), Null)]

Init ==
  /\ load \in DOMAIN Workload
  /\ helpers \in BOOLEAN
  /\ \E n \in W.counts : keyStore = InitialKeys(n) /\ generated = n
  /\ urlStore = EmptyDoc
  /\ now = 0
  /\ ticks = 0
  /\ inherited = [revoked |-> FALSE]
  /\ req = [r \in Slots |-> IdleRequest]
  /\ started = 0
  /\ hist = [issued |-> {}, revoking |-> {}, revoked |-> {}, shortened |-> {}]
  /\ broken = {}
  /\ faults = 0

\* The clock advances between two steps.
Tick(d) ==
  /\ ticks < W.ticks
  /\ now' = now + d
  /\ ticks' = ticks + 1
  /\ UNCHANGED <<keyStore, urlStore, inherited, req, started, generated, load, hist, helpers, broken, faults>>

\* Two clock reads in one step: the second may be one tick later.
Skews == IF ticks < W.ticks THEN {0, 1} ELSE {0}
Advance(d) ==
  /\ now' = now + d
  /\ ticks' = IF d = 0 THEN ticks ELSE ticks + 1

\* ------------------------------------------------- POST /api/keys
CreateStart(r, userId, description) ==
  /\ Free(r)
  /\ started' = started + 1
  /\ req' = [req EXCEPT ![r] =
       [Begin(r, "create", "c_count") EXCEPT
          !.userId = Some(userId), !.desc = description]]
  /\ UNCHANGED <<keyStore, urlStore, now, ticks, inherited, generated, load, hist, helpers, broken, faults>>

CreateCount(r) ==
  /\ req[r].pc = "c_count"
  /\ "keys" \notin broken
  /\ LET keyCount == countUserKeys(keyStore, Val(req[r].userId))
     IN \/ /\ keyCount >= MAX_KEYS_PER_USER
           /\ req' = [req EXCEPT ![r].pc = "done", ![r].count = Some(keyCount),
                 ![r].resp = Error(400, "Maximum number of API keys (5) reached for this user")]
           /\ UNCHANGED generated
        \/ /\ keyCount < MAX_KEYS_PER_USER
           /\ generateApiKey \in Keys
           /\ req' = [req EXCEPT ![r].pc = "c_read", ![r].count = Some(keyCount),
                                 ![r].name = Some(generateApiKey)]
           /\ generated' = generated + 1
  /\ UNCHANGED <<keyStore, urlStore, now, ticks, inherited, started, load, hist, helpers, broken, faults>>

CreateRead(r) ==
  /\ req[r].pc = "c_read"
  /\ "keys" \notin broken
  /\ \E d \in Skews :
       /\ Advance(d)
       /\ req' = [req EXCEPT ![r].pc = "c_write",
            ![r].keysDoc = Put(keyStore, Val(req[r].name),
               NewKeyRecord(Val(req[r].userId), now, getExpirationDate(now + d),
                            req[r].desc))]
  /\ UNCHANGED <<keyStore, urlStore, inherited, started, generated, load, hist, helpers, broken, faults>>

CreateWrite(r) ==
  /\ req[r].pc = "c_write"
  /\ keyStore' = req[r].keysDoc
  /\ Respond(r, [NoResponse EXCEPT !.status = 200, !.name = req[r].name,
        !.userId = req[r].userId,
        !.expiresAt = Some(req[r].keysDoc[Val(req[r].name)].expiresAt)])
  /\ broken' = broken \ {"keys"}
  /\ UNCHANGED <<urlStore, now, ticks, inherited, started, generated, load, helpers, faults>>
  /\ hist' = [hist EXCEPT !.issued = @ \cup
       {[key |-> Val(req[r].name),
         expiresAt |-> req[r].keysDoc[Val(req[r].name)].expiresAt]}]

\* ------------------------------------------------- GET /api/keys/:userId
ListStart(r, userId) ==
  /\ Free(r)
  /\ started' = started + 1
  /\ req' = [req EXCEPT ![r] =
       [Begin(r, "list", "l_read") EXCEPT !.userId = Some(userId)]]
  /\ UNCHANGED <<keyStore, urlStore, now, ticks, inherited, generated, load, hist, helpers, broken, faults>>

ListRead(r) ==
  /\ req[r].pc = "l_read"
  /\ "keys" \notin broken
  /\ req' = [req EXCEPT ![r].pc = "done",
       ![r].keysDoc = [k \in {n \in DOMAIN keyStore :
                                 keyStore[n].userId = Val(req[r].userId)}
                         |-> keyStore[k]],
       ![r].resp = [NoResponse EXCEPT !.status = 200]]
  /\ UNCHANGED <<keyStore, urlStore, now, ticks, inherited, started, generated, load, hist, helpers, broken, faults>>

\* ------------------------------------------------- DELETE /api/keys/:apiKey
RevokeStart(r, apiKey) ==
  /\ Free(r)
  /\ started' = started + 1
  /\ req' = [req EXCEPT ![r] =
       [Begin(r, "revoke", "d_read") EXCEPT !.name = Some(apiKey)]]
  /\ UNCHANGED <<keyStore, urlStore, now, ticks, inherited, generated, load, helpers, broken, faults>>
  /\ hist' = [hist EXCEPT !.revoking = @ \cup {apiKey}]

\* The assignments go to the copy of the document when the name is one of
\* its keys, and to the inherited object otherwise.
RevokeRead(r) ==
  /\ req[r].pc = "d_read"
  /\ "keys" \notin broken
  /\ LET apiKey == Val(req[r].name)
     IN \/ /\ Lookup(keyStore, apiKey, inherited) = Null
           /\ Respond(r, Error(404, "API key not found"))
           /\ UNCHANGED inherited
        \/ /\ apiKey \in DOMAIN keyStore
           /\ req' = [req EXCEPT ![r].pc = "d_write",
                ![r].keysDoc = [keyStore EXCEPT ![apiKey].revoked = TRUE,
                                                ![apiKey].revokedAt = Some(now)]]
           /\ UNCHANGED inherited
        \/ /\ apiKey \notin DOMAIN keyStore
           /\ Lookup(keyStore, apiKey, inherited) # Null
           /\ req' = [req EXCEPT ![r].pc = "d_write", ![r].keysDoc = keyStore]
           /\ inherited' = [inherited EXCEPT !.revoked = TRUE]
  /\ UNCHANGED <<keyStore, urlStore, now, ticks, started, generated, load, hist, helpers, broken, faults>>

RevokeWrite(r) ==
  /\ req[r].pc = "d_write"
  /\ keyStore' = req[r].keysDoc
  /\ Respond(r, [NoResponse EXCEPT !.status = 200, !.name = req[r].name])
  /\ broken' = broken \ {"keys"}
  /\ UNCHANGED <<urlStore, now, ticks, inherited, started, generated, load, helpers, faults>>
  /\ hist' = [hist EXCEPT !.revoked =
       @ \cup (DOMAIN req[r].keysDoc \cap {Val(req[r].name)})]

\* ------------------------------------------------- PATCH /api/keys/:apiKey
PatchStart(r, apiKey, description) ==
  /\ Free(r)
  /\ started' = started + 1
  /\ req' = [req EXCEPT ![r] =
       [Begin(r, "patch", "p_read") EXCEPT
          !.name = Some(apiKey), !.desc = description]]
  /\ UNCHANGED <<keyStore, urlStore, now, ticks, inherited, generated, load, hist, helpers, broken, faults>>

PatchRead(r) ==
  /\ req[r].pc = "p_read"
  /\ "keys" \notin broken
  /\ LET apiKey == Val(req[r].name)
     IN \/ /\ Lookup(keyStore, apiKey, inherited) = Null
           /\ Respond(r, Error(404, "API key not found"))
        \/ /\ apiKey \in DOMAIN keyStore
           /\ req' = [req EXCEPT ![r].pc = "p_write",
                ![r].keysDoc = [keyStore EXCEPT ![apiKey].description = req[r].desc,
                                                ![apiKey].updatedAt = Some(now)]]
        \/ /\ apiKey \notin DOMAIN keyStore
           /\ Lookup(keyStore, apiKey, inherited) # Null
           /\ req' = [req EXCEPT ![r].pc = "p_write", ![r].keysDoc = keyStore]
  /\ UNCHANGED <<keyStore, urlStore, now, ticks, inherited, started, generated, load, hist, helpers, broken, faults>>

PatchWrite(r) ==
  /\ req[r].pc = "p_write"
  /\ keyStore' = req[r].keysDoc
  /\ Respond(r, [NoResponse EXCEPT !.status = 200, !.name = req[r].name])
  /\ broken' = broken \ {"keys"}
  /\ UNCHANGED <<urlStore, now, ticks, inherited, started, generated, load, hist, helpers, faults>>

\* ------------------------------------------------- POST /api/shorten
\* header is the X-API-Key header (Null when absent), url the body's url.
ShortenStart(r, header, url) ==
  /\ Free(r)
  /\ started' = started + 1
  /\ req' = [req EXCEPT ![r] =
       IF header = Null
         THEN [Begin(r, "shorten", "done") EXCEPT !.url = url,
                 !.resp = Error(401, "API key is required")]
         ELSE [Begin(r, "shorten", "v_read") EXCEPT !.name = header, !.url = url,
                 !.after = Some(
                    [issued |-> {i.expiresAt : i \in
                                   {j \in hist.issued : j.key = Val(header)}},
                     revoked |-> Val(header) \in hist.revoked])]]
  /\ UNCHANGED <<keyStore, urlStore, now, ticks, inherited, generated, load, hist, helpers, broken, faults>>

\* validateApiKey from its read of the key document to its write.
ValidateRead(r) ==
  /\ req[r].pc = "v_read"
  /\ "keys" \notin broken
  /\ LET apiKey == Val(req[r].name)
         keyData == Lookup(keyStore, apiKey, inherited)
         found == [present |-> apiKey \in DOMAIN keyStore, keyData |-> keyData,
                   at |-> now, revoking |-> apiKey \in hist.revoking]
     IN \/ /\ keyData = Null
           /\ req' = [req EXCEPT ![r].pc = "done", ![r].seen = Some(found),
                ![r].resp = Error(401, "Invalid API key")]
           /\ UNCHANGED <<now, ticks>>
        \/ /\ keyData # Null
           /\ Val(keyData).revoked
           /\ req' = [req EXCEPT ![r].pc = "done", ![r].seen = Some(found),
                ![r].resp = Error(401, "API key has been revoked")]
           /\ UNCHANGED <<now, ticks>>
        \/ /\ keyData # Null
           /\ ~Val(keyData).revoked
           /\ isKeyExpired(Val(keyData), now)
           /\ req' = [req EXCEPT ![r].pc = "done", ![r].seen = Some(found),
                ![r].resp = Error(401, "API key has expired")]
           /\ UNCHANGED <<now, ticks>>
        \/ /\ keyData # Null
           /\ ~Val(keyData).revoked
           /\ ~isKeyExpired(Val(keyData), now)
           /\ \E d \in Skews :
                /\ Advance(d)
                /\ req' = [req EXCEPT ![r].pc = "v_write", ![r].seen = Some(found),
                     ![r].keysDoc = setLastUsed(keyStore, apiKey, now + d)]
  /\ UNCHANGED <<keyStore, urlStore, inherited, started, generated, load, hist, helpers, broken, faults>>

\* The write of validateApiKey, then next(): the route handler checks the
\* url and starts reading the URL document.  Without the helpers the call
\* isValidUrl(url) throws a ReferenceError before the handler's try block:
\* the rejected promise is dropped and the request is never answered
\* (Express 4), or the framework's error handler answers 500 (Express 5).
\* (The process exiting on the unhandled rejection is not modelled.)
ValidateWrite(r) ==
  /\ req[r].pc = "v_write"
  /\ keyStore' = req[r].keysDoc
  /\ LET userId == Val(Val(req[r].seen).keyData).userId
         url == req[r].url
     IN \/ /\ url = NoUrl
           /\ req' = [req EXCEPT ![r].pc = "done", ![r].userId = userId,
                ![r].keysDoc = EmptyDoc,
                ![r].resp = Error(400, "Invalid URL provided")]
        \/ /\ url # NoUrl
           /\ ~helpers
           /\ \/ req' = [req EXCEPT ![r].pc = "hung", ![r].userId = userId,
                     ![r].keysDoc = EmptyDoc]
              \/ req' = [req EXCEPT ![r].pc = "done", ![r].userId = userId,
                     ![r].keysDoc = EmptyDoc,
                     ![r].resp = Error(500, "Internal Server Error")]
        \/ /\ url # NoUrl
           /\ helpers
           /\ ~isValidUrl(url)
           /\ req' = [req EXCEPT ![r].pc = "done", ![r].userId = userId,
                ![r].keysDoc = EmptyDoc,
                ![r].resp = Error(400, "Invalid URL provided")]
        \/ /\ url # NoUrl
           /\ helpers
           /\ isValidUrl(url)
           /\ req' = [req EXCEPT ![r].pc = "s_read", ![r].userId = userId,
                ![r].keysDoc = EmptyDoc]
  /\ broken' = broken \ {"keys"}
  /\ UNCHANGED <<urlStore, now, ticks, inherited, started, generated, load, hist, helpers, faults>>

ShortenRead(r) ==
  /\ req[r].pc = "s_read"
  /\ "urls" \notin broken
  /\ \E shortUrl \in W.ids :
       req' = [req EXCEPT ![r].pc = "s_write", ![r].sid = Some(shortUrl),
         ![r].urlsDoc = Put(urlStore, shortUrl,
            [originalUrl |-> req[r].url, userId |-> req[r].userId,
             createdAt |-> now])]
  /\ UNCHANGED <<keyStore, urlStore, now, ticks, inherited, started, generated, load, hist, helpers, broken, faults>>

ShortenWrite(r) ==
  /\ req[r].pc = "s_write"
  /\ urlStore' = req[r].urlsDoc
  /\ Respond(r, [NoResponse EXCEPT !.status = 200, !.name = req[r].sid,
        !.url = req[r].url])
  /\ broken' = broken \ {"urls"}
  /\ UNCHANGED <<keyStore, now, ticks, inherited, started, generated, load, helpers, faults>>
  /\ hist' = [hist EXCEPT !.shortened = @ \cup
       {[sid |-> Val(req[r].sid), url |-> req[r].url]}]

\* ------------------------------------------------- GET /:shortUrl
\* What the redirect route answers on the document it has read.  An
\* inherited name is truthy and has no originalUrl: the Location is the
\* text "undefined".
Resolve(urls, shortUrl) ==
  IF shortUrl \in DOMAIN urls
    THEN [NoResponse EXCEPT !.status = 302,
            !.url = encodeUrl(urls[shortUrl].originalUrl)]
    ELSE IF shortUrl = Constructor
      THEN [NoResponse EXCEPT !.status = 302, !.url = <<"undefined">>]
      ELSE Error(404, "Short URL not found")

ResolveStart(r, shortUrl) ==
  /\ Free(r)
  /\ started' = started + 1
  /\ req' = [req EXCEPT ![r] =
       [Begin(r, "resolve", "g_read") EXCEPT !.sid = Some(shortUrl)]]
  /\ UNCHANGED <<keyStore, urlStore, now, ticks, inherited, generated, load, hist, helpers, broken, faults>>

ResolveRead(r) ==
  /\ req[r].pc = "g_read"
  /\ "urls" \notin broken
  /\ Respond(r, Resolve(urlStore, Val(req[r].sid)))
  /\ UNCHANGED <<keyStore, urlStore, now, ticks, inherited, started, generated, load, hist, helpers, broken, faults>>

\* ------------------------------------------------- jsonFileMiddleware
\* The document each step reads, and what the catch block of its handler
\* answers when readJSON throws.
Reads ==
  [c_count |-> "keys", c_read |-> "keys", l_read |-> "keys", d_read |-> "keys",
   p_read |-> "keys", v_read |-> "keys", s_read |-> "urls", g_read |-> "urls"]

Caught ==
  [c_count |-> "Error generating API key",
   c_read |-> "Error generating API key",
   l_read |-> "Error retrieving API keys",
   d_read |-> "Error revoking API key",
   p_read |-> "Error updating API key",
   v_read |-> "Internal server error",
   s_read |-> "Error shortening URL",
   g_read |-> "Error redirecting to URL"]

\* What a handler does when its read throws: answer 500 from the catch
\* block and return.  (The variant answers as if nothing had been thrown.)
CatchSucceeds(pc) == [NoResponse EXCEPT !.status = 200]
Catch(pc) == Error(500, Caught[pc])

\* readJSON rethrows every error but ENOENT: the handler's catch answers.
ReadFails(r) ==
  /\ req[r].pc \in DOMAIN Reads
  /\ Reads[req[r].pc] \in broken
  /\ Respond(r, Catch(req[r].pc))
  /\ UNCHANGED <<keyStore, urlStore, now, ticks, inherited, started, generated, load, hist, helpers, broken, faults>>

\* A document becomes unreadable (its file no longer parses) until it is
\* written again.
Corrupt(f) ==
  /\ faults < W.faults
  /\ f \notin broken
  /\ broken' = broken \cup {f}
  /\ faults' = faults + 1
  /\ UNCHANGED <<keyStore, urlStore, now, ticks, inherited, req, started, generated, load, hist, helpers>>

\* ------------------------------------------------------------------ Next
Next ==
  \/ \E d \in TickSteps : Tick(d)
  \/ \E f \in Files : Corrupt(f)
  \/ \E r \in Slots :
       \/ \E u \in W.users, d \in W.descriptions : CreateStart(r, u, d)
       \/ CreateCount(r)
       \/ CreateRead(r)
       \/ CreateWrite(r)
       \/ \E u \in W.users : ListStart(r, u)
       \/ ListRead(r)
       \/ \E k \in W.names : RevokeStart(r, k)
       \/ RevokeRead(r)
       \/ RevokeWrite(r)
       \/ \E k \in W.names, d \in W.descriptions : PatchStart(r, k, d)
       \/ PatchRead(r)
       \/ PatchWrite(r)
       \/ \E h \in W.headers, u \in W.urls : ShortenStart(r, h, u)
       \/ ValidateRead(r)
       \/ ValidateWrite(r)
       \/ ShortenRead(r)
       \/ ShortenWrite(r)
       \/ \E s \in W.paths : ResolveStart(r, s)
       \/ ResolveRead(r)
       \/ ReadFails(r)

Spec == Init /\ [][Next]_vars

\* ---------------------------------------------------------------- claims
Shortens == {r \in Slots : req[r].kind = "shorten"}

\* The Shorten requests whose Validate step has read the key document.
Validated == {r \in Shortens : req[r].seen # Null}

SeenPresent(r) == Val(req[r].seen).present
SeenRevoked(r) == Val(Val(req[r].seen).keyData).revoked
SeenExpiresAt(r) == Val(Val(Val(req[r].seen).keyData).expiresAt)
SeenAt(r) == Val(req[r].seen).at

\* Validate let the request through: it is past the check, or it was
\* answered by the route handler.
Passed(r) ==
  /\ req[r].seen # Null
  /\ \/ req[r].pc \in {"v_write", "s_read", "s_write", "hung"}
     \/ req[r].pc = "done" /\ req[r].resp.status \in {200, 400, 500}

Rejected(r, message) ==
  req[r].pc = "done" /\ req[r].resp = Error(401, message)

\* C1: in every reachable state no userId has more than MAX_KEYS_PER_USER
\* records in the key store, also when POST /api/keys requests overlap.
C1_KeyQuota ==
  \A u \in Users : countUserKeys(keyStore, u) <= MAX_KEYS_PER_USER

\* C2: a Shorten request is answered 200 (and writes a UrlRecord) only if
\* the key document its Validate step read held the key, not revoked, and
\* the time was before the key's expiresAt.
C2_OnlyUsableKeysShorten ==
  \A r \in Shortens :
     req[r].pc = "s_write" \/ req[r].resp.status = 200
     => /\ r \in Validated
        /\ SeenPresent(r)
        /\ ~SeenRevoked(r)
        /\ SeenAt(r) < SeenExpiresAt(r)

\* C3: Validate answers 401 in a fixed order: no header -> "API key is
\* required"; key not in the store -> "Invalid API key"; revoked (expired
\* or not) -> "revoked"; else expired -> "expired"; and only a usable key
\* reaches the URL check, so an unusable key is never answered 400.
C3_ValidateOrder ==
  \A r \in Shortens :
     /\ req[r].name = Null => Rejected(r, "API key is required")
     /\ r \in Validated =>
          IF ~SeenPresent(r) THEN Rejected(r, "Invalid API key")
          ELSE IF SeenRevoked(r) THEN Rejected(r, "API key has been revoked")
          ELSE IF SeenExpiresAt(r) < SeenAt(r)
            THEN Rejected(r, "API key has expired")
          ELSE Passed(r)

\* The non-revoked keys of the store that a Validate step has looked at.
Checked == {r \in Validated : SeenPresent(r) /\ ~SeenRevoked(r)}

\* C4 as stated: Validate on a non-revoked key fails with Expired whenever
\* now >= expiresAt, the instant now = expiresAt included, and succeeds
\* only when now < expiresAt.
C4_ExpiredFromExpiresAt ==
  \A r \in Checked :
     /\ Rejected(r, "API key has expired") <=> SeenAt(r) >= SeenExpiresAt(r)
     /\ Passed(r) <=> SeenAt(r) < SeenExpiresAt(r)

\* C4 amended: Validate on a non-revoked key fails with Expired exactly
\* when now > expiresAt; at the instant now = expiresAt it still succeeds.
C4_ExpiredAfterExpiresAt ==
  \A r \in Checked :
     /\ Rejected(r, "API key has expired") <=> SeenAt(r) > SeenExpiresAt(r)
     /\ Passed(r) <=> SeenAt(r) <= SeenExpiresAt(r)

\* A Shorten validated at the very instant its key expires was answered 200.
C4_Witness ==
  \E r \in Checked :
     SeenAt(r) = SeenExpiresAt(r) /\ req[r].resp.status = 200

\* C5: with a usable key, a url that parses as an absolute URL is answered
\* 200 with that url and a short identifier, and a GET of the identifier
\* issued next redirects to exactly that url; a missing or unparsable url
\* is answered 400 "Invalid URL provided".
C5_RoundTrip ==
  \A r \in Checked :
     /\ req[r].pc \in {"done", "hung"} /\ Passed(r) =>
          IF req[r].url = NoUrl \/ ~isValidUrl(req[r].url)
            THEN req[r].resp = Error(400, "Invalid URL provided")
            ELSE /\ req[r].resp.status = 200
                 /\ req[r].resp.url = req[r].url
                 /\ req[r].resp.name = req[r].sid
     /\ /\ req[r].resp.status = 200
        /\ Val(req[r].sid) \in DOMAIN urlStore
        /\ urlStore[Val(req[r].sid)].originalUrl = req[r].url
        => Resolve(urlStore, Val(req[r].sid)) =
             [NoResponse EXCEPT !.status = 302, !.url = req[r].url]

\* C6: a Shorten never takes an identifier that is already a key of the URL
\* store, neither when it draws the identifier nor when it writes, so two
\* Shorten calls in sequence return two distinct identifiers.
C6_UniqueShortIds ==
  [][\A r \in Slots :
       /\ req[r].pc = "s_read" /\ req'[r].pc = "s_write"
            => Val(req'[r].sid) \notin DOMAIN urlStore
       /\ req[r].pc = "s_write" /\ req'[r].pc = "done"
            => Val(req[r].sid) \notin DOMAIN urlStore]_vars

\* C7: once DELETE /api/keys/:apiKey of a stored key has been answered 200,
\* the stored record has revoked = true in every later state, and every
\* Shorten sent after that response with that key is rejected 401 "revoked".
C7_RevocationPermanent ==
  /\ \A k \in hist.revoked : k \in DOMAIN keyStore /\ keyStore[k].revoked
  /\ \A r \in Validated :
       Val(req[r].after).revoked => Rejected(r, "API key has been revoked")

\* C8: every key POST /api/keys returned with status 200 is a key of the
\* key store in every later state.
C8_KeysNeverRemoved ==
  \A i \in hist.issued : i.key \in DOMAIN keyStore

\* C9: Create stores the new record with revoked = false and lastUsed =
\* null; a Shorten sent with a key Create returned, validated before the
\* key's expiresAt with no Revoke of the key sent in between, passes
\* Validate, and Validate's write leaves the record's lastUsed at the
\* (non-null) time of the validation.
C9_FreshKeyUsable ==
  /\ [](\A r \in Validated :
          /\ ~Val(req[r].seen).revoking
          /\ \E e \in Val(req[r].after).issued : SeenAt(r) < e
          => Passed(r))
  /\ [][\A r \in Slots :
          /\ req[r].pc = "c_write" /\ req'[r].pc = "done"
               => /\ ~keyStore'[Val(req[r].name)].revoked
                  /\ keyStore'[Val(req[r].name)].lastUsed = Null
          /\ req[r].pc = "v_write" /\ req'[r].pc # "v_write" /\ SeenPresent(r)
               => /\ keyStore'[Val(req[r].name)].lastUsed # Null
                  /\ Val(keyStore'[Val(req[r].name)].lastUsed) >= SeenAt(r)]_vars

\* C10: a POST /api/keys that counts MAX_KEYS_PER_USER or more records of
\* its userId (revoked ones included) is answered 400 and leaves the key
\* store unchanged; one that counts fewer is answered 200 and adds exactly
\* one record with that userId to the store.
C10_QuotaRejection ==
  [][\A r \in Slots :
       /\ req[r].pc = "c_count" /\ req'[r].pc # "c_count"
            => IF countUserKeys(keyStore, Val(req[r].userId)) >= MAX_KEYS_PER_USER
                 THEN /\ req'[r].pc = "done"
                      /\ req'[r].resp.status = 400
                      /\ keyStore' = keyStore
                 ELSE req'[r].pc = "c_read" /\ keyStore' = keyStore
       /\ req[r].pc = "c_write" /\ req'[r].pc = "done"
            => /\ req'[r].resp.status = 200
               /\ countUserKeys(keyStore', Val(req[r].userId))
                    = countUserKeys(keyStore, Val(req[r].userId)) + 1]_vars

\* C11: a GET /:shortUrl that reads a URL document (an empty one included)
\* in which its identifier is no key is answered 404 "Short URL not found",
\* and no Resolve changes the URL store or the key store.
C11_ResolveUnknown ==
  [][\A r \in Slots :
       req[r].pc = "g_read" /\ req'[r].pc = "done" /\ "urls" \notin broken
         => /\ keyStore' = keyStore
            /\ urlStore' = urlStore
            /\ Val(req[r].sid) \notin DOMAIN urlStore
                 => req'[r].resp = Error(404, "Short URL not found")]_vars

\* C12: a DELETE or PATCH /api/keys/:apiKey that reads a key document in
\* which its key is absent is answered 404 "API key not found" and leaves
\* the key store as it is, with no record for that key.
C12_AbsentKeyNotFound ==
  [][\A r \in Slots :
       /\ req[r].pc \in {"d_read", "p_read"}
       /\ req'[r].pc # req[r].pc
       /\ "keys" \notin broken
       /\ Val(req[r].name) \notin DOMAIN keyStore
       => /\ req'[r].pc = "done"
          /\ req'[r].resp = Error(404, "API key not found")
          /\ keyStore' = keyStore]_vars

C14_FailedShortenWritesNothing ==
  [][\A r \in Slots :
       /\ req'[r] # req[r]
       /\ req'[r].kind = "shorten"
       /\ req'[r].pc = "done"
       /\ req'[r].resp.status \in {400, 401, 500}
       => keyStore' = keyStore /\ urlStore' = urlStore]_vars

\* C14 amended: a Shorten changes the URL store only in the step that
\* answers 200; it changes the key store only by Validate's write, which
\* stores the document Validate read with nothing but lastUsed of the
\* request's key changed, and which is done before the url is looked at; a
\* Shorten answered 401 has written nothing.
C14_FailedShortenWritesLastUsedOnly ==
  [][\A r \in Slots :
       req'[r] # req[r] /\ req'[r].kind = "shorten"
       => /\ urlStore' # urlStore
               => req'[r].pc = "done" /\ req'[r].resp.status = 200
          /\ keyStore' # keyStore
               => req[r].pc = "v_write" /\ keyStore' = req[r].keysDoc
          /\ req'[r].pc = "v_write"
               => /\ DOMAIN req'[r].keysDoc = DOMAIN keyStore
                  /\ \A k \in DOMAIN keyStore :
                       req'[r].keysDoc[k] =
                         IF k = Val(req'[r].name)
                           THEN [keyStore[k] EXCEPT
                                   !.lastUsed = req'[r].keysDoc[k].lastUsed]
                           ELSE keyStore[k]
          /\ req'[r].pc = "done" /\ req'[r].resp.status = 401
               => /\ req[r].pc # "v_write"
                  /\ keyStore' = keyStore
                  /\ urlStore' = urlStore]_vars

\* A Shorten with a stored key was answered 400 and the key's lastUsed is
\* set in the store.
C14_Witness ==
  \E r \in Shortens :
     /\ req[r].pc = "done"
     /\ req[r].resp.status = 400
     /\ Val(req[r].name) \in DOMAIN keyStore
     /\ keyStore[Val(req[r].name)].lastUsed # Null
     /\ urlStore = EmptyDoc

\* C15: no request ends without a response, and every response has one of
\* the statuses 200, 302, 400, 401, 404, 500.
C15_EveryRequestAnswered ==
  \A r \in Slots :
     /\ req[r].pc # "hung"
     /\ req[r].pc = "done" => req[r].resp.status \in {200, 302, 400, 401, 404, 500}

\* C16: an identifier POST /api/shorten returned with status 200 stays a
\* key of the URL store, bound to the url it was returned for.
C16_ShortUrlsStayBound ==
  \A h \in hist.shortened :
     /\ h.sid \in DOMAIN urlStore
     /\ urlStore[h.sid].originalUrl = h.url

\* C17: a step that reads a document readJSON cannot parse answers 500 and
\* ends the request with both stores unchanged; a step that reads a
\* document whose file does not exist yet goes on as with an empty mapping.
C17_ReadFailure ==
  [][\A r \in Slots :
       /\ /\ req[r].pc \in DOMAIN Reads
          /\ Reads[req[r].pc] \in broken
          /\ req'[r] # req[r]
          => /\ req'[r].pc = "done"
             /\ req'[r].resp.status = 500
             /\ keyStore' = keyStore
             /\ urlStore' = urlStore
       /\ /\ req[r].pc = "c_read" /\ req'[r] # req[r]
          /\ "keys" \notin broken /\ keyStore = EmptyDoc
          => req'[r].pc = "c_write"
               /\ DOMAIN req'[r].keysDoc = {Val(req[r].name)}
       /\ /\ req[r].pc = "g_read" /\ req'[r] # req[r]
          /\ "urls" \notin broken /\ urlStore = EmptyDoc
          /\ Val(req[r].sid) # Constructor
          => req'[r].resp = Error(404, "Short URL not found")]_vars

\* The first key was created from a key document that did not exist yet,
\* and a request was answered 500 by its catch block because the document
\* it wanted to read is unreadable.
C17_Witness ==
  /\ \E i \in hist.issued : i.key = 1
  /\ \E r \in Slots, pc \in DOMAIN Reads :
       /\ req[r].pc = "done"
       /\ req[r].resp = Catch(pc)
       /\ Reads[pc] \in broken

\* C18: every UrlRecord has a userId, and it is the userId of a record of
\* the key store.
C18_UrlOwnership ==
  \A s \in DOMAIN urlStore :
     /\ urlStore[s].userId # Null
     /\ \E k \in DOMAIN keyStore :
          keyStore[k].userId = Val(urlStore[s].userId)

\* C19: a write of the key store keeps every record that was there with its
\* userId, createdAt and expiresAt; a Revoke changes only revoked and
\* revokedAt of its key, an UpdateDescription only description and
\* updatedAt, a Validate only lastUsed; a Create only adds its record; and
\* none of them changes the URL store.
C19_IdentityImmutable ==
  [][\A r \in Slots :
       req'[r] # req[r] /\ keyStore' # keyStore
       => /\ urlStore' = urlStore
          /\ DOMAIN keyStore \subseteq DOMAIN keyStore'
          /\ \A k \in DOMAIN keyStore :
               /\ keyStore'[k].userId = keyStore[k].userId
               /\ keyStore'[k].createdAt = keyStore[k].createdAt
               /\ keyStore'[k].expiresAt = keyStore[k].expiresAt
               /\ k # Val(req[r].name) => keyStore'[k] = keyStore[k]
               /\ k = Val(req[r].name) =>
                    keyStore'[k] =
                      IF req[r].kind = "revoke"
                        THEN [keyStore[k] EXCEPT
                                !.revoked = keyStore'[k].revoked,
                                !.revokedAt = keyStore'[k].revokedAt]
                      ELSE IF req[r].kind = "patch"
                        THEN [keyStore[k] EXCEPT
                                !.description = keyStore'[k].description,
                                !.updatedAt = keyStore'[k].updatedAt]
                      ELSE [keyStore[k] EXCEPT
                              !.lastUsed = keyStore'[k].lastUsed]]_vars

====
